---- MODULE Spec2Model ----
(***************************************************************************)
(* The nirmata.io/hostpath provisioner: NewHostPathProvisioner, Provision  *)
(* and Delete of hostPathProvisioner, in the two variants the repository   *)
(* carries:                                                                *)
(*   "A"  examples/hostpath-provisioner/hostpath-provisioner.go            *)
(*   "B"  the second copy of the program (unnamed/part_000)                *)
(*                                                                         *)
(* A Go string is modelled as the non-empty sequence of its "/"-free       *)
(* segments, i.e. the result of splitting it at every "/":                 *)
(*    ""        is <<"">>          "/z"      is <<"", "z">>                *)
(*    "a-a"     is <<"a-a">>       "/k/"     is <<"", "k", "">>            *)
(* Segments are TLA+ strings, so "+" inside a segment is \o on strings and *)
(* joining with "/" is \o on the sequences.                                *)
(*                                                                         *)
(* The filesystem is the set of directories that exist, each named by its  *)
(* cleaned path; "/" and the working directory always exist.               *)
(***************************************************************************)
EXTENDS Integers, Sequences, FiniteSets, TLC

VARIABLES
    variant,   \* which of the two programs runs
    env,       \* the process environment (os.Getenv)
    state,     \* "start", "running" (provisioner built) or "fatal" (klog.Fatal)
    p,         \* the hostPathProvisioner: pvDirs and identity
    fs,        \* directories on the host
    pvs,       \* the claims provisioned so far, each with the volume returned
    ret,       \* the last call: operation, arguments, returned values, whether
               \* the operating system failed it, whether its directory existed before
    calls,     \* number of Provision/Delete calls made
    cfs0,      \* concurrent runs: filesystem at the start
    cjob,      \* concurrent runs: the call each worker makes
    cpc,       \* concurrent runs: where each worker is
    ccur,      \* concurrent runs: MkdirAll's path argument at the current depth
    cstack,    \* concurrent runs: MkdirAll's pending frames
    cret       \* concurrent runs: what each worker's call returned; before that,
               \* the error of MkdirAll's failed Mkdir

seqVars  == <<variant, env, state, p, fs, pvs, ret, calls>>
concVars == <<cfs0, cjob, cpc, ccur, cstack, cret>>
vars     == <<variant, env, state, p, fs, pvs, ret, calls,
              cfs0, cjob, cpc, ccur, cstack, cret>>

(***************************************************************************)
(* Bounds                                                                  *)
(***************************************************************************)
MaxCalls == 3
NumWorkers == 2

(***************************************************************************)
(* Go strings                                                              *)
(***************************************************************************)
Empty == <<"">>

Str(s) == <<s>>

\* s + t
Concat(s, t) ==
    SubSeq(s, 1, Len(s) - 1) \o <<s[Len(s)] \o t[1]>> \o Tail(t)

Rooted(s) == Len(s) > 1 /\ s[1] = ""

RECURSIVE CleanFrom(_, _, _, _)
\* the loop of path.Clean: out is the stack of elements kept so far
CleanFrom(segs, i, rooted, out) ==
    IF i > Len(segs) THEN out
    ELSE LET seg == segs[i] IN
         CASE seg = ""  -> CleanFrom(segs, i + 1, rooted, out)
           [] seg = "." -> CleanFrom(segs, i + 1, rooted, out)
           [] seg = ".." ->
                IF out # <<>> /\ out[Len(out)] # ".."
                THEN CleanFrom(segs, i + 1, rooted, SubSeq(out, 1, Len(out) - 1))
                ELSE IF ~rooted
                     THEN CleanFrom(segs, i + 1, rooted, Append(out, ".."))
                     ELSE CleanFrom(segs, i + 1, rooted, out)
           [] OTHER -> CleanFrom(segs, i + 1, rooted, Append(out, seg))

\* path.Clean
Clean(s) ==
    IF s = Empty THEN <<".">>
    ELSE LET rooted == Rooted(s)
             out    == CleanFrom(s, 1, rooted, <<>>)
         IN  IF out = <<>>
             THEN IF rooted THEN <<"", "">> ELSE <<".">>
             ELSE IF rooted THEN <<"">> \o out ELSE out

RECURSIVE JoinSlash(_)
\* strings.Join(elem, "/")
JoinSlash(elem) ==
    IF Len(elem) = 1 THEN elem[1] ELSE elem[1] \o JoinSlash(Tail(elem))

\* path.Join
Join(elem) ==
    LET ne == SelectSeq(elem, LAMBDA e : e # Empty)
    IN  IF ne = <<>> THEN Empty ELSE Clean(JoinSlash(ne))

(***************************************************************************)
(* Paths of the filesystem                                                 *)
(***************************************************************************)
Comps(path) == SelectSeq(path, LAMBDA s : s # "" /\ s # ".")

MkPath(rooted, comps) ==
    IF comps = <<>>
    THEN IF rooted THEN <<"", "">> ELSE <<".">>
    ELSE IF rooted THEN <<"">> \o comps ELSE comps

\* the directory the kernel resolves path to
Resolve(path) == MkPath(Rooted(path), Comps(path))

\* b is path itself or one of its ancestors
IsPrefix(b, path) ==
    /\ Rooted(b) = Rooted(path)
    /\ Len(Comps(b)) <= Len(Comps(path))
    /\ SubSeq(Comps(path), 1, Len(Comps(b))) = Comps(b)

\* path lies under the directory b
IsUnder(path, b) == IsPrefix(b, path) /\ Len(Comps(b)) < Len(Comps(path))

\* path and every directory above it, below "/" or the working directory
AncestorsOrSelf(path) ==
    { MkPath(Rooted(path), SubSeq(Comps(path), 1, k)) : k \in 1..Len(Comps(path)) }

\* the directories of fs in the tree rooted at path
Tree(dirs, path) == { d \in dirs : IsPrefix(Resolve(path), d) }

Below(dirs, path) == { d \in dirs : IsUnder(d, Resolve(path)) }


(***************************************************************************)
(* Maps (labels, annotations): sets of <<key, value>> pairs, one per key   *)
(***************************************************************************)
MapHas(m, k) == \E kv \in m : kv[1] = k

\* m[k]: the zero value "" when the key is missing
MapGet(m, k) == IF MapHas(m, k) THEN (CHOOSE kv \in m : kv[1] = k)[2] ELSE Empty

(***************************************************************************)
(* Program constants                                                       *)
(***************************************************************************)
zk      == Str("zk")
mongodb == Str("mongodb")
es      == Str("es")
kafka   == Str("kafka")

DefaultDir == <<"", "tmp", "nirmata-hostpath-provisioner">>

IdentityAnn == "hostPathProvisionerIdentity"
HostpathAnn == "hostpath"

dirs == <<"ZK_PV_DIR", "MONGODB_PV_DIR", "ES_PV_DIR", "KAFKA_PV_DIR">>

\* error values
NoErr           == "nil"
ErrNoIdentity   == "identity annotation not found on PV"
ErrNoHostpath   == "hostpath annotation not found on PV"
ErrIgnored      == "IgnoredError: identity annotation on PV does not match ours"
ErrFilesystem   == "filesystem error"
ErrExist        == "file exists"
ErrNotExist     == "no such file or directory"
ErrNotEmpty     == "directory not empty"

NoPV   == [Name |-> Empty, Annotations |-> {}, ReclaimPolicy |-> "", HostPath |-> Empty]
NoProv == [zkDir |-> Empty, esDir |-> Empty, mongodbDir |-> Empty,
           kafkaDir |-> Empty, identity |-> Empty]

(***************************************************************************)
(* NewHostPathProvisioner                                                  *)
(***************************************************************************)
\* DirFatal with the ES_PV_DIR exemption carried into both programs
DirFatal_EsExempt(v, dir, val) == val = Empty /\ dir # "ES_PV_DIR"

\* the test inside the loop over dirs that ends in klog.Fatalf
DirFatal(v, dir, val) ==
    IF v = "A" THEN val = Empty /\ dir # "ES_PV_DIR" ELSE val = Empty

ConstructFatal(v, e) ==
    \/ e["NODE_NAME"] = Empty
    \/ \E i \in 1..Len(dirs) : DirFatal(v, dirs[i], e[dirs[i]])

\* the struct literal returned; a field the literal leaves out is ""
NewProvisioner(v, e) ==
    [zkDir      |-> e["ZK_PV_DIR"],
     esDir      |-> IF v = "A" THEN Empty ELSE e["ES_PV_DIR"],
     mongodbDir |-> e["MONGODB_PV_DIR"],
     kafkaDir   |-> e["KAFKA_PV_DIR"],
     identity   |-> e["NODE_NAME"]]

NewHostPathProvisioner ==
    /\ state = "start"
    /\ IF ConstructFatal(variant, env)
       THEN /\ state' = "fatal"
            /\ p' = p
       ELSE /\ state' = "running"
            /\ p' = NewProvisioner(variant, env)
    /\ UNCHANGED <<variant, env, fs, pvs, ret, calls>>
    /\ UNCHANGED concVars

(***************************************************************************)
(* os.MkdirAll and os.RemoveAll                                            *)
(***************************************************************************)
\* MkdirAll that, like Mkdir, fails when the directory is already there
MkdirAll_FailIfExists(dirset, path, fault, k) ==
    LET want == AncestorsOrSelf(Resolve(path))
    IN  IF fault
        THEN [fs  |-> dirset \cup { d \in want : Len(Comps(d)) <= k },
              err |-> ErrFilesystem]
        ELSE IF Resolve(path) \in dirset
        THEN [fs |-> dirset, err |-> ErrExist]
        ELSE [fs |-> dirset \cup want, err |-> NoErr]

\* fault: the operating system refuses some step; the first k missing
\* levels are then all that got created
MkdirAll(dirset, path, fault, k) ==
    LET want == AncestorsOrSelf(Resolve(path))
    IN  IF fault
        THEN [fs  |-> dirset \cup { d \in want : Len(Comps(d)) <= k },
              err |-> ErrFilesystem]
        ELSE [fs |-> dirset \cup want, err |-> NoErr]

\* RemoveAll that, like Remove, fails when the path is not there
RemoveAll_FailIfAbsent(dirset, path, fault, gone) ==
    IF fault
    THEN [fs |-> dirset \ gone, err |-> ErrFilesystem]
    ELSE IF Resolve(path) \notin dirset
    THEN [fs |-> dirset, err |-> ErrNotExist]
    ELSE [fs |-> dirset \ Tree(dirset, path), err |-> NoErr]

\* fault: the operating system refuses some step; path stays and only the
\* directories of gone, all below path, are removed.  A path that does not
\* exist is not an error.
RemoveAll(dirset, path, fault, gone) ==
    IF fault
    THEN [fs |-> dirset \ gone, err |-> ErrFilesystem]
    ELSE [fs |-> dirset \ Tree(dirset, path), err |-> NoErr]

\* what a failing RemoveAll may have removed: whole subtrees below path
GoneSets(dirset, path) ==
    { g \in SUBSET Below(dirset, path) :
        \A d \in g : Tree(dirset, d) \subseteq g }

(***************************************************************************)
(* Provision                                                               *)
(***************************************************************************)
\* the switch on labels["app"]
PvDir(pr, labels) ==
    LET app == MapGet(labels, "app")
    IN  CASE app = zk      -> pr.zkDir
          [] app = mongodb -> pr.mongodbDir
          [] app = es      -> pr.esDir
          [] app = kafka   -> pr.kafkaDir
          [] OTHER         -> DefaultDir

\* options.PVC.Namespace+"-"+options.PVC.Name+"-"+options.PVName
VolumeKey(options) ==
    Concat(Concat(Concat(Concat(options.PVC.Namespace, Str("-")),
                         options.PVC.Name), Str("-")), options.PVName)

ProvisionPath(pr, options) ==
    Join(<<PvDir(pr, options.PVC.Labels), VolumeKey(options)>>)

\* NewPV that records the category directory in the hostpath annotation
NewPV_DirAnnotation(pr, options, path) ==
    [Name          |-> options.PVName,
     Annotations   |-> {<<IdentityAnn, pr.identity>>,
                        <<HostpathAnn, Clean(PvDir(pr, options.PVC.Labels))>>},
     ReclaimPolicy |-> options.ReclaimPolicy,
     HostPath      |-> path]

\* the PersistentVolume literal
NewPV(pr, options, path) ==
    [Name          |-> options.PVName,
     Annotations   |-> {<<IdentityAnn, pr.identity>>, <<HostpathAnn, path>>},
     ReclaimPolicy |-> options.ReclaimPolicy,
     HostPath      |-> path]

ProvisionResult(pr, dirset, options, fault, k) ==
    LET path == ProvisionPath(pr, options)
        mk   == MkdirAll(dirset, path, fault, k)
    IN  IF mk.err # NoErr
        THEN [fs |-> mk.fs, pv |-> NoPV, err |-> mk.err]
        ELSE [fs |-> mk.fs, pv |-> NewPV(pr, options, path), err |-> NoErr]

(***************************************************************************)
(* Delete                                                                  *)
(***************************************************************************)
\* Delete without the comparison of the identity annotation
DeleteResult_NoOwnerCheck(pr, dirset, volume, fault, gone) ==
    IF ~MapHas(volume.Annotations, IdentityAnn)
    THEN [fs |-> dirset, err |-> ErrNoIdentity]
    ELSE IF ~MapHas(volume.Annotations, HostpathAnn)
    THEN [fs |-> dirset, err |-> ErrNoHostpath]
    ELSE RemoveAll(dirset, MapGet(volume.Annotations, HostpathAnn), fault, gone)

\* Delete that falls back to the volume's host path when the hostpath
\* annotation is missing
DeleteResult_FallBack(pr, dirset, volume, fault, gone) ==
    IF ~MapHas(volume.Annotations, IdentityAnn)
    THEN [fs |-> dirset, err |-> ErrNoIdentity]
    ELSE IF MapGet(volume.Annotations, IdentityAnn) # pr.identity
    THEN [fs |-> dirset, err |-> ErrIgnored]
    ELSE IF ~MapHas(volume.Annotations, HostpathAnn)
    THEN RemoveAll(dirset, volume.HostPath, fault, gone)
    ELSE RemoveAll(dirset, MapGet(volume.Annotations, HostpathAnn), fault, gone)

\* Delete that removes the volume's host path, not the annotation's
DeleteResult_SpecPath(pr, dirset, volume, fault, gone) ==
    IF ~MapHas(volume.Annotations, IdentityAnn)
    THEN [fs |-> dirset, err |-> ErrNoIdentity]
    ELSE IF MapGet(volume.Annotations, IdentityAnn) # pr.identity
    THEN [fs |-> dirset, err |-> ErrIgnored]
    ELSE IF ~MapHas(volume.Annotations, HostpathAnn)
    THEN [fs |-> dirset, err |-> ErrNoHostpath]
    ELSE RemoveAll(dirset, volume.HostPath, fault, gone)

HostpathOf(volume) == MapGet(volume.Annotations, HostpathAnn)

\* the checks of the annotations: the error returned, NoErr when they pass
DeleteCheck(pr, volume) ==
    IF ~MapHas(volume.Annotations, IdentityAnn)
    THEN ErrNoIdentity
    ELSE IF MapGet(volume.Annotations, IdentityAnn) # pr.identity
    THEN ErrIgnored
    ELSE IF ~MapHas(volume.Annotations, HostpathAnn)
    THEN ErrNoHostpath
    ELSE NoErr

DeleteResult(pr, dirset, volume, fault, gone) ==
    IF DeleteCheck(pr, volume) # NoErr
    THEN [fs |-> dirset, err |-> DeleteCheck(pr, volume)]
    ELSE RemoveAll(dirset, HostpathOf(volume), fault, gone)

(***************************************************************************)
(* Inputs                                                                  *)
(***************************************************************************)
\* namespace, claim name and volume name: DNS names, which may hold "-"
NameTriples ==
    { <<Str("a"),   Str("a"),   Str("a")>>,
      <<Str("a-a"), Str("a"),   Str("b")>>,
      <<Str("a"),   Str("a-a"), Str("b")>> }

LabelSets ==
    {{}} \cup { {<<"app", v>>} : v \in {zk, mongodb, es, kafka, Str("redis")} }

Options(t, l) ==
    [PVC |-> [Namespace |-> t[1], Name |-> t[2], Labels |-> l],
     PVName |-> t[3], ReclaimPolicy |-> "Delete"]

\* every label with one claim, zk with all three
AllOptions ==
    { Options(t, {<<"app", zk>>}) : t \in NameTriples }
      \cup { Options(<<Str("a"), Str("a"), Str("a")>>, l) : l \in LabelSets }

NodeNames == {Empty, Str("n1")}

\* the kafka directory is the directory of a zk volume (namespace a, claim
\* a, volume a) and is written with a trailing "/"
Environments ==
    [NODE_NAME      : NodeNames,
     ZK_PV_DIR      : {Empty, <<"", "z">>},
     MONGODB_PV_DIR : {Empty, <<"", "m">>},
     ES_PV_DIR      : {Empty, <<"", "e">>},
     KAFKA_PV_DIR   : {Empty, <<"", "z", "a-a-a", "">>}]

\* paths found on volumes read back from the cluster: the path of a volume,
\* and the directory above it
HostPaths(pr) ==
    { ProvisionPath(pr, o) : o \in { x \in AllOptions :
          x.PVC.Labels = {<<"app", zk>>} /\ x.PVName = Str("b") } }
      \cup {Clean(pr.zkDir)}

\* volumes read back from the cluster that no Provision of this run returned:
\* made by this or another instance, with or without either annotation
StoredVolumes(pr) ==
    { [Name          |-> Str("b"),
       Annotations   |-> ia \cup ha,
       ReclaimPolicy |-> "Delete",
       HostPath      |-> ProvisionPath(pr, CHOOSE x \in AllOptions :
                            x.PVC.Labels = {<<"app", zk>>} /\ x.PVName = Str("b"))] :
         ia \in {{}, {<<IdentityAnn, pr.identity>>}, {<<IdentityAnn, Str("n2")>>}},
         ha \in {{}} \cup { {<<HostpathAnn, h>>} : h \in HostPaths(pr) } }

NoOptions == [PVC |-> [Namespace |-> Empty, Name |-> Empty, Labels |-> {}],
              PVName |-> Empty, ReclaimPolicy |-> ""]
NoCall == [op |-> "none", options |-> NoOptions, volume |-> NoPV,
           pv |-> NoPV, err |-> NoErr, fault |-> FALSE, before |-> FALSE]

(***************************************************************************)
(* The program run by one caller                                           *)
(***************************************************************************)
Init ==
    /\ variant \in {"A", "B"}
    /\ env \in Environments
    /\ state = "start"
    /\ p = NoProv
    /\ fs = {}
    /\ pvs = {}
    /\ ret = NoCall
    /\ calls = 0
    /\ cfs0 = {}
    /\ cjob = <<>>
    /\ cpc = <<>>
    /\ ccur = <<>>
    /\ cstack = <<>>
    /\ cret = <<>>

\* the volumes Provision returned
Volumes == { b.pv : b \in pvs }

Provision ==
    /\ state = "running"
    /\ calls < MaxCalls
    /\ \E options \in AllOptions, fault \in BOOLEAN :
         \E k \in IF fault THEN 0..(Len(Comps(ProvisionPath(p, options))) - 1) ELSE {0} :
            LET r == ProvisionResult(p, fs, options, fault, k)
            IN  /\ fs' = r.fs
                /\ pvs' = IF r.err = NoErr
                          THEN pvs \cup {[options |-> options, pv |-> r.pv]}
                          ELSE pvs
                /\ ret' = [op |-> "Provision", options |-> options,
                           volume |-> NoPV, pv |-> r.pv, err |-> r.err,
                           fault |-> fault,
                           before |-> Resolve(ProvisionPath(p, options)) \in fs]
    /\ calls' = calls + 1
    /\ UNCHANGED <<variant, env, state, p>>
    /\ UNCHANGED concVars

Delete ==
    /\ state = "running"
    /\ calls < MaxCalls
    /\ \E volume \in Volumes \cup StoredVolumes(p), fault \in BOOLEAN :
         \E gone \in IF fault /\ MapHas(volume.Annotations, HostpathAnn)
                     THEN GoneSets(fs, MapGet(volume.Annotations, HostpathAnn))
                     ELSE {{}} :
            LET r == DeleteResult(p, fs, volume, fault, gone)
            IN  /\ fs' = r.fs
                /\ ret' = [op |-> "Delete", options |-> NoOptions,
                           volume |-> volume, pv |-> NoPV, err |-> r.err,
                           fault |-> fault,
                           before |-> /\ MapHas(volume.Annotations, HostpathAnn)
                                      /\ Resolve(MapGet(volume.Annotations, HostpathAnn)) \in fs]
    /\ calls' = calls + 1
    /\ UNCHANGED <<variant, env, state, p, pvs>>
    /\ UNCHANGED concVars

Next ==
    \/ NewHostPathProvisioner
    \/ Provision
    \/ Delete

Spec == Init /\ [][Next]_vars

(***************************************************************************)
(* The program called by the controller's workers at the same time.  Each  *)
(* worker makes one call; a step is one system call, with the computation  *)
(* around it.  os.MkdirAll is Stat, MkdirAll of the parent, Mkdir and, on  *)
(* error, Lstat; os.RemoveAll is Remove and, for a directory that is not   *)
(* empty, the removal of its entries one by one and of the directory.      *)
(* System calls fail only for what the directories are: nothing to create  *)
(* in, something already there, something still inside.                   *)
(***************************************************************************)
Workers == 1..NumWorkers

\* the claims the workers' calls are about: a zk volume, a kafka volume
\* whose directory lies inside the first's, a second zk volume and a mongodb
\* volume
ConcOptions ==
    { Options(<<Str("a"), Str("a"), Str("a")>>, {<<"app", zk>>}),
      Options(<<Str("a"), Str("a"), Str("a")>>, {<<"app", kafka>>}),
      Options(<<Str("a-a"), Str("a"), Str("b")>>, {<<"app", zk>>}),
      Options(<<Str("a"), Str("a"), Str("a")>>, {<<"app", mongodb>>}) }

ConcEnv ==
    [NODE_NAME      |-> Str("n1"),
     ZK_PV_DIR      |-> <<"", "z">>,
     MONGODB_PV_DIR |-> <<"", "m">>,
     ES_PV_DIR      |-> <<"", "e">>,
     KAFKA_PV_DIR   |-> <<"", "z", "a-a-a", "">>]

Jobs(pr) ==
    { [op |-> "Provision", options |-> o, volume |-> NoPV] : o \in ConcOptions }
      \cup
    { [op |-> "Delete", options |-> NoOptions,
       volume |-> NewPV(pr, o, ProvisionPath(pr, o))] : o \in ConcOptions }

\* the directories left by Provision of every claim of done
ProvisionedDirs(pr, done) ==
    UNION { AncestorsOrSelf(Resolve(ProvisionPath(pr, o))) : o \in done }

NoRet == [pv |-> NoPV, err |-> NoErr]

InitConc ==
    /\ variant \in {"A", "B"}
    /\ env = ConcEnv
    /\ state = "running"
    /\ p = NewProvisioner(variant, env)
    /\ \E done \in SUBSET ConcOptions : fs = ProvisionedDirs(p, done)
    /\ cfs0 = fs
    /\ pvs = {}
    /\ ret = NoCall
    /\ calls = 0
    /\ cjob \in [Workers -> Jobs(p)]
    /\ cpc = [w \in Workers |-> "call"]
    /\ ccur = [w \in Workers |-> Empty]
    /\ cstack = [w \in Workers |-> <<>>]
    /\ cret = [w \in Workers |-> NoRet]

Parent(path) == MkPath(Rooted(path), SubSeq(Comps(path), 1, Len(Comps(path)) - 1))

\* MkdirAll's "if j > 1": there is a directory to create above path
HasParent(path) == Len(Comps(path)) > 1

\* Mkdir can create path: the directory above is there
ParentExists(dirset, path) == ~HasParent(path) \/ Parent(path) \in dirset

\* MkdirAll after a failed Mkdir returning the error without looking at
\* what is there
AfterMkdirError_NoLstat(dirset, path, err) == err

\* MkdirAll after a failed Mkdir: Lstat, and a directory there is success
AfterMkdirError(dirset, path, err) ==
    IF path \in dirset THEN NoErr ELSE err

\* one invocation of MkdirAll returns err to its caller: an error ends the
\* call, success resumes the pending invocation at its Mkdir
MkdirAllReturn(w, err) ==
    IF err # NoErr
    THEN /\ cpc' = [cpc EXCEPT ![w] = "done"]
         /\ cret' = [cret EXCEPT ![w] = [pv |-> NoPV, err |-> err]]
         /\ UNCHANGED <<ccur, cstack>>
    ELSE IF cstack[w] = <<>>
    THEN /\ cpc' = [cpc EXCEPT ![w] = "done"]
         /\ cret' = [cret EXCEPT ![w] =
                [pv  |-> NewPV(p, cjob[w].options, ProvisionPath(p, cjob[w].options)),
                 err |-> NoErr]]
         /\ UNCHANGED <<ccur, cstack>>
    ELSE /\ cpc' = [cpc EXCEPT ![w] = "mkdir"]
         /\ ccur' = [ccur EXCEPT ![w] = Head(cstack[w])]
         /\ cstack' = [cstack EXCEPT ![w] = Tail(cstack[w])]
         /\ UNCHANGED cret

\* Provision up to os.MkdirAll, Delete up to os.RemoveAll
Call(w) ==
    /\ cpc[w] = "call"
    /\ IF cjob[w].op = "Provision"
       THEN /\ ccur' = [ccur EXCEPT ![w] = Resolve(ProvisionPath(p, cjob[w].options))]
            /\ cpc' = [cpc EXCEPT ![w] = "stat"]
            /\ UNCHANGED cret
       ELSE LET err == DeleteCheck(p, cjob[w].volume)
            IN  IF err # NoErr
                THEN /\ cpc' = [cpc EXCEPT ![w] = "done"]
                     /\ cret' = [cret EXCEPT ![w] = [pv |-> NoPV, err |-> err]]
                     /\ UNCHANGED ccur
                ELSE /\ cpc' = [cpc EXCEPT ![w] = "remove"]
                     /\ ccur' = [ccur EXCEPT ![w] = Resolve(HostpathOf(cjob[w].volume))]
                     /\ UNCHANGED cret
    /\ UNCHANGED <<fs, cstack, cfs0, cjob>>
    /\ UNCHANGED <<variant, env, state, p, pvs, ret, calls>>

\* MkdirAll: Stat(path)
MkdirAllStat(w) ==
    /\ cpc[w] = "stat"
    /\ IF ccur[w] \in fs
       THEN MkdirAllReturn(w, NoErr)
       ELSE IF HasParent(ccur[w])
       THEN /\ cstack' = [cstack EXCEPT ![w] = <<ccur[w]>> \o cstack[w]]
            /\ ccur' = [ccur EXCEPT ![w] = Parent(ccur[w])]
            /\ UNCHANGED <<cpc, cret>>
       ELSE /\ cpc' = [cpc EXCEPT ![w] = "mkdir"]
            /\ UNCHANGED <<ccur, cstack, cret>>
    /\ UNCHANGED <<fs, cfs0, cjob>>
    /\ UNCHANGED <<variant, env, state, p, pvs, ret, calls>>

\* MkdirAll: Mkdir(path)
MkdirAllMkdir(w) ==
    /\ cpc[w] = "mkdir"
    /\ IF ccur[w] \in fs
       THEN /\ cpc' = [cpc EXCEPT ![w] = "lstat"]
            /\ cret' = [cret EXCEPT ![w] = [pv |-> NoPV, err |-> ErrExist]]
            /\ UNCHANGED <<fs, ccur, cstack>>
       ELSE IF ~ParentExists(fs, ccur[w])
       THEN /\ cpc' = [cpc EXCEPT ![w] = "lstat"]
            /\ cret' = [cret EXCEPT ![w] = [pv |-> NoPV, err |-> ErrNotExist]]
            /\ UNCHANGED <<fs, ccur, cstack>>
       ELSE /\ fs' = fs \cup {ccur[w]}
            /\ MkdirAllReturn(w, NoErr)
    /\ UNCHANGED <<cfs0, cjob>>
    /\ UNCHANGED <<variant, env, state, p, pvs, ret, calls>>

\* MkdirAll: Lstat(path) after Mkdir failed
MkdirAllLstat(w) ==
    /\ cpc[w] = "lstat"
    /\ MkdirAllReturn(w, AfterMkdirError(fs, ccur[w], cret[w].err))
    /\ UNCHANGED <<fs, cfs0, cjob>>
    /\ UNCHANGED <<variant, env, state, p, pvs, ret, calls>>

DeleteReturn(w, err) ==
    /\ cpc' = [cpc EXCEPT ![w] = "done"]
    /\ cret' = [cret EXCEPT ![w] = [pv |-> NoPV, err |-> err]]

\* RemoveAll: Remove(path)
RemoveAllRemove(w) ==
    /\ cpc[w] = "remove"
    /\ IF ccur[w] \notin fs
       THEN DeleteReturn(w, NoErr) /\ fs' = fs
       ELSE IF Below(fs, ccur[w]) = {}
       THEN DeleteReturn(w, NoErr) /\ fs' = fs \ {ccur[w]}
       ELSE /\ cpc' = [cpc EXCEPT ![w] = "entries"]
            /\ UNCHANGED <<fs, cret>>
    /\ UNCHANGED <<ccur, cstack, cfs0, cjob>>
    /\ UNCHANGED <<variant, env, state, p, pvs, ret, calls>>

\* RemoveAll: read the entries; remove one that is empty, or find none left
RemoveAllEntries(w) ==
    /\ cpc[w] = "entries"
    /\ IF Below(fs, ccur[w]) = {}
       THEN /\ cpc' = [cpc EXCEPT ![w] = "rmdir"]
            /\ fs' = fs
       ELSE /\ \E d \in Below(fs, ccur[w]) :
                 /\ Below(fs, d) = {}
                 /\ fs' = fs \ {d}
            /\ cpc' = cpc
    /\ UNCHANGED <<ccur, cstack, cret, cfs0, cjob>>
    /\ UNCHANGED <<variant, env, state, p, pvs, ret, calls>>

\* RemoveAll: remove the directory itself
RemoveAllRmdir(w) ==
    /\ cpc[w] = "rmdir"
    /\ IF ccur[w] \notin fs
       THEN DeleteReturn(w, NoErr) /\ fs' = fs
       ELSE IF Below(fs, ccur[w]) # {}
       THEN DeleteReturn(w, ErrNotEmpty) /\ fs' = fs
       ELSE DeleteReturn(w, NoErr) /\ fs' = fs \ {ccur[w]}
    /\ UNCHANGED <<ccur, cstack, cfs0, cjob>>
    /\ UNCHANGED <<variant, env, state, p, pvs, ret, calls>>

NextConc ==
    \E w \in Workers :
        \/ Call(w)
        \/ MkdirAllStat(w)
        \/ MkdirAllMkdir(w)
        \/ MkdirAllLstat(w)
        \/ RemoveAllRemove(w)
        \/ RemoveAllEntries(w)
        \/ RemoveAllRmdir(w)

SpecConc == InitConc /\ [][NextConc]_vars

(***************************************************************************)
(* Properties                                                              *)
(***************************************************************************)
AllDirsSet ==
    \A i \in 1..Len(dirs) : env[dirs[i]] # Empty

\* the base directory the configuration gives the claim's category
ConfiguredDir(labels) ==
    LET app == MapGet(labels, "app")
    IN  CASE app = zk      -> env["ZK_PV_DIR"]
          [] app = mongodb -> env["MONGODB_PV_DIR"]
          [] app = es      -> env["ES_PV_DIR"]
          [] app = kafka   -> env["KAFKA_PV_DIR"]
          [] OTHER         -> DefaultDir

Category(labels) ==
    LET app == MapGet(labels, "app")
    IN  IF app \in {zk, mongodb, es, kafka} THEN app ELSE Str("default")

ProvisionReturned == ret.op = "Provision" /\ ret.err = NoErr

\* a Provision, respectively Delete, call is made in this step
ProvisionCalled == calls' = calls + 1 /\ ret'.op = "Provision"
DeleteCalled    == calls' = calls + 1 /\ ret'.op = "Delete"

MissingMetadata == {ErrNoIdentity, ErrNoHostpath}

\* neither path is the other or lies under it
Apart(a, b) == ~IsPrefix(Resolve(a), Resolve(b)) /\ ~IsPrefix(Resolve(b), Resolve(a))

\* C1: with all four category directories configured, the directory that
\* Provision creates and returns lies under the configured directory of the
\* claim's app label (zk, mongodb, es, kafka), and under the default
\* directory for a missing or any other label.
C1_PathUnderCategoryDir ==
    (ProvisionReturned /\ AllDirsSet) =>
        /\ IsUnder(ret.pv.HostPath, ConfiguredDir(ret.options.PVC.Labels))
        /\ Resolve(ret.pv.HostPath) \in fs

\* C1 restricted to the program that stores all four directories
C1_PathUnderCategoryDir_B ==
    variant = "B" => C1_PathUnderCategoryDir

\* C2: two provisioned claims of the same category that differ in
\* namespace, claim name or volume name have distinct paths.
C2_PathsDistinct ==
    \A b1 \in pvs, b2 \in pvs :
        ( /\ Category(b1.options.PVC.Labels) = Category(b2.options.PVC.Labels)
          /\ \/ b1.options.PVC.Namespace # b2.options.PVC.Namespace
             \/ b1.options.PVC.Name # b2.options.PVC.Name
             \/ b1.options.PVName # b2.options.PVName )
        => b1.pv.HostPath # b2.pv.HostPath

\* C3: Delete of a volume whose identity annotation is present and is not
\* the instance's identity returns IgnoredError and leaves the filesystem
\* as it is, with or without a hostpath annotation.
C3_OwnershipGate ==
    [][ ( /\ DeleteCalled
          /\ MapHas(ret'.volume.Annotations, IdentityAnn)
          /\ MapGet(ret'.volume.Annotations, IdentityAnn) # p.identity )
        => (ret'.err = ErrIgnored /\ fs' = fs) ]_vars

C3_Witness ==
    /\ ret.op = "Delete"
    /\ MapHas(ret.volume.Annotations, IdentityAnn)
    /\ MapGet(ret.volume.Annotations, IdentityAnn) # p.identity
    /\ ret.before
    /\ ret.err = ErrIgnored

\* C4 as stated: Delete of a volume without the hostpath annotation returns
\* a missing-metadata error and leaves the filesystem as it is, whatever the
\* identity annotation is.
C4_MissingHostpath_AnyIdentity ==
    [][ (DeleteCalled /\ ~MapHas(ret'.volume.Annotations, HostpathAnn))
        => (ret'.err \in MissingMetadata /\ fs' = fs) ]_vars

\* C4 amended: Delete of a volume without the hostpath annotation leaves the
\* filesystem as it is; it returns a missing-metadata error when the
\* identity annotation is absent or is the instance's identity, and
\* IgnoredError when the identity annotation names another instance.
C4_MissingHostpath ==
    [][ (DeleteCalled /\ ~MapHas(ret'.volume.Annotations, HostpathAnn))
        => /\ fs' = fs
           /\ IF /\ MapHas(ret'.volume.Annotations, IdentityAnn)
                 /\ MapGet(ret'.volume.Annotations, IdentityAnn) # p.identity
              THEN ret'.err = ErrIgnored
              ELSE ret'.err \in MissingMetadata ]_vars

C4_Witness ==
    /\ ret.op = "Delete"
    /\ ~MapHas(ret.volume.Annotations, HostpathAnn)
    /\ MapGet(ret.volume.Annotations, IdentityAnn) = p.identity
    /\ Resolve(ret.volume.HostPath) \in fs
    /\ ret.err = ErrNoHostpath

\* C5: Delete of a volume that Provision returned, when the operating
\* system fails nothing, succeeds and leaves nothing at the volume's path;
\* when nothing is there already it succeeds and changes nothing.
C5_DeleteIdempotent ==
    [][ (DeleteCalled /\ ret'.volume \in Volumes /\ ~ret'.fault)
        => /\ ret'.err = NoErr
           /\ Tree(fs', HostpathOf(ret'.volume)) = {}
           /\ (Tree(fs, HostpathOf(ret'.volume)) = {} => fs' = fs) ]_vars

C5_Witness ==
    /\ ret.op = "Delete"
    /\ ret.volume \in Volumes
    /\ ~ret.fault
    /\ ~ret.before
    /\ ret.err = NoErr
    /\ fs # {}

\* C6: a volume returned by Provision carries the instance's identity in
\* the identity annotation and, in the hostpath annotation, the path of the
\* directory created, which is the volume's host path; a Provision whose
\* directory creation fails returns an error and no volume.
C6_MetadataComplete ==
    ret.op = "Provision" =>
        IF ret.err = NoErr
        THEN /\ ~ret.fault
             /\ MapHas(ret.pv.Annotations, IdentityAnn)
             /\ MapGet(ret.pv.Annotations, IdentityAnn) = p.identity
             /\ MapHas(ret.pv.Annotations, HostpathAnn)
             /\ HostpathOf(ret.pv) = ret.pv.HostPath
             /\ Resolve(HostpathOf(ret.pv)) \in fs
             /\ ret.pv.Name = ret.options.PVName
        ELSE ret.fault /\ ret.pv = NoPV

C6_Witness ==
    /\ ProvisionReturned
    /\ MapGet(ret.options.PVC.Labels, "app") = kafka
    /\ HostpathOf(ret.pv) \in fs

\* C7: Provision of a claim and volume name already provisioned, when the
\* operating system fails nothing, succeeds again with the same path; a
\* directory already at the path is no error and the filesystem stays as
\* it is.
C7_ProvisionIdempotent ==
    [][ (ProvisionCalled /\ ~ret'.fault)
        => /\ ret'.err = NoErr
           /\ \A b \in pvs :
                b.options = ret'.options => ret'.pv.HostPath = b.pv.HostPath
           /\ (ret'.before => fs' = fs) ]_vars

C7_Witness ==
    /\ ProvisionReturned
    /\ ret.before
    /\ calls >= 2
    /\ \E b \in pvs : b.options = ret.options

\* C8: the provisioner exists only when NODE_NAME and every required
\* directory (ZK, MONGODB, KAFKA; ES too in program B) is non-empty;
\* otherwise the process ends in klog.Fatal and makes no call.
RequiredSet ==
    /\ env["NODE_NAME"] # Empty
    /\ env["ZK_PV_DIR"] # Empty
    /\ env["MONGODB_PV_DIR"] # Empty
    /\ env["KAFKA_PV_DIR"] # Empty
    /\ (variant = "B" => env["ES_PV_DIR"] # Empty)

C8_FatalOnMissingConfig ==
    /\ state = "running" => RequiredSet
    /\ state = "fatal" => ~RequiredSet
    /\ state # "running" => (calls = 0 /\ ret = NoCall /\ fs = {} /\ p = NoProv)

C8_Witness ==
    /\ state = "fatal"
    /\ variant = "B"
    /\ env["ES_PV_DIR"] = Empty
    /\ env["NODE_NAME"] # Empty
    /\ env["ZK_PV_DIR"] # Empty
    /\ env["MONGODB_PV_DIR"] # Empty
    /\ env["KAFKA_PV_DIR"] # Empty

\* C9: a successful Delete removes the tree at the path in the hostpath
\* annotation and nothing else: every provisioned volume whose path is
\* apart from it keeps its directory.
C9_DeleteExactlyTree ==
    [][ (DeleteCalled /\ ret'.err = NoErr)
        => /\ fs' = fs \ Tree(fs, HostpathOf(ret'.volume))
           /\ \A v \in Volumes :
                ( /\ Apart(v.HostPath, HostpathOf(ret'.volume))
                  /\ Resolve(v.HostPath) \in fs )
                => Resolve(v.HostPath) \in fs' ]_vars

C9_Witness ==
    /\ ret.op = "Delete"
    /\ ret.err = NoErr
    /\ ret.before
    /\ HostpathOf(ret.volume) # ret.volume.HostPath
    /\ \E v \in Volumes :
          /\ Apart(v.HostPath, HostpathOf(ret.volume))
          /\ Resolve(v.HostPath) \in fs

\* the call of job made alone on the directories dirset
JobResult(pr, dirset, job) ==
    IF job.op = "Provision"
    THEN LET r == ProvisionResult(pr, dirset, job.options, FALSE, 0)
         IN  [fs |-> r.fs, ret |-> [pv |-> r.pv, err |-> r.err]]
    ELSE LET r == DeleteResult(pr, dirset, job.volume, FALSE, {})
         IN  [fs |-> r.fs, ret |-> [pv |-> NoPV, err |-> r.err]]

RECURSIVE SerialRun(_, _, _, _)
\* the workers' calls made one after another in the given order, from the
\* i-th on: the directories left and what each call returned
SerialRun(order, i, dirset, rets) ==
    IF i > Len(order) THEN [fs |-> dirset, rets |-> rets]
    ELSE LET r == JobResult(p, dirset, cjob[order[i]])
         IN  SerialRun(order, i + 1, r.fs, [rets EXCEPT ![order[i]] = r.ret])

Orders ==
    { o \in [1..NumWorkers -> Workers] :
        \A i \in 1..NumWorkers, j \in 1..NumWorkers : o[i] = o[j] => i = j }

Serializable ==
    \E o \in Orders :
        LET out == SerialRun(o, 1, cfs0, [w \in Workers |-> NoRet])
        IN  out.fs = fs /\ out.rets = cret

JobPath(job) ==
    IF job.op = "Provision" THEN ProvisionPath(p, job.options)
    ELSE HostpathOf(job.volume)

AllDone == \A w \in Workers : cpc[w] = "done"

PathsDistinct ==
    \A w1 \in Workers, w2 \in Workers :
        w1 # w2 => JobPath(cjob[w1]) # JobPath(cjob[w2])

PathsApart ==
    \A w1 \in Workers, w2 \in Workers :
        w1 # w2 => Apart(JobPath(cjob[w1]), JobPath(cjob[w2]))

\* C10 as stated: when the workers' calls are on volumes with pairwise
\* distinct paths, every interleaving ends with the results and the
\* directories of the calls made one after another in some order, and the
\* provisioner's identity and directories stay as constructed.
C10_DistinctPathsSerializable ==
    /\ p = NewProvisioner(variant, env)
    /\ (AllDone /\ PathsDistinct) => Serializable

\* C10 amended: the same for volumes whose paths are pairwise distinct and
\* none of which lies under another.
C10_ApartPathsSerializable ==
    /\ p = NewProvisioner(variant, env)
    /\ (AllDone /\ PathsApart) => Serializable

\* two Provision calls under a directory that neither found, and a Delete
\* next to a Provision, have all returned
C10_Witness ==
    /\ AllDone
    /\ PathsApart
    /\ \E w1 \in Workers, w2 \in Workers :
          /\ cjob[w1].op = "Provision"
          /\ cjob[w2].op = "Provision"
          /\ w1 # w2
          /\ cfs0 = {}
          /\ Parent(Resolve(JobPath(cjob[w1]))) = Parent(Resolve(JobPath(cjob[w2])))
          /\ cret[w1].err = NoErr
          /\ cret[w2].err = NoErr

====
